---- MODULE Spec2Model ----
(***************************************************************************)
(* A model of the PersonalAccountant worker (src/index.ts): the mail,      *)
(* webhook and cron handlers, the remote calls they issue and the order    *)
(* in which the calls settle.                                              *)
(*                                                                         *)
(* Texts are sequences of one-character strings.  A label of a message     *)
(* template that holds no character the Normalizer touches is written as   *)
(* one token ("LBL_..."), the JavaScript value undefined as Undefined.     *)
(* One action is one turn of the handler: from the settling of the remote  *)
(* call it awaits to the next await (or to its return or throw).           *)
(***************************************************************************)
EXTENDS Integers, Sequences, FiniteSets, TLC

\* ----------------------------------------------------------------- bounds
\* The largest number of pending statuses one poll loop is shown.
MaxPending == 2

\* ---------------------------------------------------------- configuration
TELEGRAM_CHAT_ID == 100
\* The id of some other sender.
Stranger == TELEGRAM_CHAT_ID + 1
TELEGRAM_BOT_SECRET_TOKEN == <<"s", "3">>

\* The JavaScript value undefined (also standing for null): no text holds
\* this token.
Undefined == <<"<undefined>">>

\* No reply has arrived yet: no text holds this token either.
NoReply == <<"<no reply>">>

\* String(undefined) inside a template literal.
UndefinedText == <<"undefined">>

\* ------------------------------------------------------------- Normalizer
Digits == {"0", "1", "2", "3", "4", "5", "6", "7", "8", "9"}

\* The backtick, one character of a text.
Backtick == "U+0060"

\* The character class of normalize's first replace.
EscapedChars ==
    {"_", "[", "]", "~", Backtick, ">", "#", "+", "-", "=", "|", "{", "}", ".", "!"}

\* normalize's first replace: a backslash before each such character.
RECURSIVE escapeChars(_)
escapeChars(text) ==
    IF text = <<>> THEN <<>>
    ELSE (IF Head(text) \in EscapedChars THEN <<"\\", Head(text)>>
          ELSE <<Head(text)>>) \o escapeChars(Tail(text))

\* The index after the longest run of digits of text that starts at i.
RECURSIVE skipDigits(_, _)
skipDigits(text, i) ==
    IF i <= Len(text) /\ text[i] \in Digits THEN skipDigits(text, i + 1) ELSE i

\* The characters U+3010, U+2020 and U+3011 of the citation marker, each one
\* character of a text.
MarkOpen == "U+3010"
MarkDagger == "U+2020"
MarkClose == "U+3011"
SourceTail == <<MarkDagger, "s", "o", "u", "r", "c", "e", MarkClose>>

\* Where a match of the citation-marker pattern that starts at i ends
\* (the index after it), 0 when none starts there.
matchCitation(text, i) ==
    IF i > Len(text) \/ text[i] # MarkOpen THEN 0
    ELSE LET j == skipDigits(text, i + 1) IN
         IF j = i + 1 \/ j > Len(text) \/ text[j] # ":" THEN 0
         ELSE LET k == skipDigits(text, j + 1) IN
              IF k = j + 1 \/ k + Len(SourceTail) - 1 > Len(text) THEN 0
              ELSE IF SubSeq(text, k, k + Len(SourceTail) - 1) = SourceTail
                   THEN k + Len(SourceTail)
                   ELSE 0

\* normalize's second replace: one pass, left to right, markers deleted.
RECURSIVE removeCitations(_, _)
removeCitations(text, i) ==
    IF i > Len(text) THEN <<>>
    ELSE LET e == matchCitation(text, i) IN
         IF e > 0 THEN removeCitations(text, e)
         ELSE <<text[i]>> \o removeCitations(text, i + 1)

\* normalize with the backslash in the character class as well.
RECURSIVE escapeCharsAndBackslash(_)
escapeCharsAndBackslash(text) ==
    IF text = <<>> THEN <<>>
    ELSE (IF Head(text) \in EscapedChars \cup {"\\"} THEN <<"\\", Head(text)>>
          ELSE <<Head(text)>>) \o escapeCharsAndBackslash(Tail(text))

normalizeWithBackslash(text) == removeCitations(escapeCharsAndBackslash(text), 1)

normalize(text) == removeCitations(escapeChars(text), 1)

\* --------------------------------------------------- Transaction Records
\* A parsed JSON object: a property the object lacks reads as undefined.
BlankObject ==
    [result |-> Undefined, error |-> Undefined, message |-> Undefined,
     bank_name |-> Undefined, datetime |-> Undefined, amount |-> Undefined,
     currency |-> Undefined, plain_data |-> Undefined]

FailedText == <<"f", "a", "i", "l", "e", "d">>

TxCoffee ==
    [BlankObject EXCEPT !.message = <<"c", "a", "f", "e">>,
                        !.bank_name = <<"V", "C", "B">>,
                        !.datetime = <<"0", "1", "/", "0", "1">>,
                        !.amount = <<"5", "0", ".", "0", "0", "0">>,
                        !.currency = <<"V", "N", "D">>]

\* The documents a completion's content may hold, by the value JSON.parse
\* gives for each: t is "object", "null" or "false".
JsonDocument ==
    [d \in {"{failed}", "{failed+tx}", "{tx}", "{tx+ok}", "{tx+error}", "{}",
            "null", "false"} |->
        CASE d = "{failed}" -> [t |-> "object", o |-> [BlankObject EXCEPT !.result = FailedText]]
          [] d = "{failed+tx}" -> [t |-> "object", o |-> [TxCoffee EXCEPT !.result = FailedText]]
          [] d = "{tx}" -> [t |-> "object", o |-> TxCoffee]
          [] d = "{tx+ok}" -> [t |-> "object", o |-> [TxCoffee EXCEPT !.result = <<"o", "k">>]]
          [] d = "{tx+error}" -> [t |-> "object", o |-> [TxCoffee EXCEPT !.error = <<"n", "o", "!">>]]
          [] d = "{}" -> [t |-> "object", o |-> BlankObject]
          [] d = "null" -> [t |-> "null", o |-> BlankObject]
          [] d = "false" -> [t |-> "false", o |-> BlankObject]]

SyntaxError == [t |-> "SyntaxError", o |-> BlankObject]
NoValue == [t |-> "undefined", o |-> BlankObject]

\* JSON.parse of a text: a value when the text is one document, else a
\* SyntaxError.
JSONparse(text) ==
    IF Len(text) = 1 /\ text[1] \in DOMAIN JsonDocument
    THEN JsonDocument[text[1]]
    ELSE SyntaxError

\* content?.replaceAll(backtick, '')
stripBackticks(content) ==
    IF content = Undefined THEN Undefined
    ELSE SelectSeq(content, LAMBDA ch : ch # Backtick)

\* The contents an extraction completion may carry: none, empty, backticks
\* only, prose, a bare document, a fenced document, a fenced document with a
\* language tag.
Fence == <<Backtick, Backtick, Backtick>>
CompletionContents ==
    {Undefined, <<>>, Fence, <<"S", "o", "r", "r", "y">>}
    \cup {<<d>> : d \in DOMAIN JsonDocument}
    \cup {Fence \o <<d>> \o Fence : d \in {"{tx}", "{failed}"}}
    \cup {Fence \o <<"j", "s", "o", "n", "{tx}">> \o Fence}

\* ------------------------------------------------------------------ state
VARIABLES
    event,               \* the trigger being handled (NoEvent: none)
    pc,                  \* the await the handler is parked at
    route,               \* the function that called the shared code
    result,              \* what the handler has returned or thrown
    bodyRead,            \* whether c.req.json() has read the request body
    bot,                 \* the cached Telegraf client (FALSE: null)
    constructions,       \* how many Telegraf clients were constructed
    senders,             \* the calls of sendTelegramMessage running side by side
    calls,               \* the remote calls issued, in issue order
    inflight,            \* the apis of the calls not yet settled
    storePc,             \* where storeTransaction stands
    notifyPc,            \* where notifyServices stands
    completion,          \* the content of the extraction completion
    msgContent,          \* the reply text read from the job's message list
    transactionDetails,  \* what processTransaction returned
    delivered,           \* the texts the chat has received
    uploaded,            \* the file ids the file store holds
    attached,            \* the file ids the vector store holds
    pending,             \* the pending statuses the poll loop has seen
    storeError,          \* the error storeTransaction rejected with
    storeResponses,      \* the responses storeTransaction's fetches resolved to
    trace,               \* waitForCompletion's steps: statuses read, logs, sleeps
    intent,              \* the function name the classification answered
    normInput,           \* a text handed to normalize
    normOutput,          \* what normalize returned for it
    normAgain,           \* what normalize returned for that in turn
    clock,               \* the time new Date() reads, in hours
    runtimeOffset,       \* the hours the runtime's local time is ahead of UTC
    weekRange            \* what formatDate returned for the week

vars ==
    <<event, pc, route, result, bodyRead, bot, constructions, calls, inflight, storePc,
      notifyPc, completion, msgContent, transactionDetails, delivered,
      uploaded, attached, pending, storeError, storeResponses, trace, intent,
      normInput, normOutput, normAgain, clock, runtimeOffset, weekRange, senders>>

\* The variables of the functions checked on their own.
pureVars == <<normInput, normOutput, normAgain, clock, runtimeOffset, weekRange>>

\* No range has been computed.
NoRange == [from |-> -1, to |-> -1]

\* No text has been handed to normalize.
NormIdle ==
    /\ normInput = <<>>
    /\ normOutput = NoReply
    /\ normAgain = NoReply

\* The most calls of sendTelegramMessage running side by side.
MaxSenders == 4

\* A call of sendTelegramMessage: where its caller stands and what became of
\* the transport's send.
Sender(at, send) == [pc |-> at, send |-> send]

\* No call of sendTelegramMessage is running side by side with the handler.
SendersIdle == senders = [s \in 1..MaxSenders |-> Sender("ready", "none")]

\* formatDate has not been called.
DateIdle ==
    /\ clock = 0
    /\ runtimeOffset = 0
    /\ weekRange = NoRange

NoEvent ==
    [kind |-> "none", header |-> Undefined, from |-> 0, text |-> Undefined,
     photo |-> Undefined, mailText |-> Undefined, mailHtml |-> Undefined,
     cron |-> ""]

Running == [state |-> "pending", status |-> 0, value |-> ""]
Returned(value) == [state |-> "returned", status |-> 0, value |-> value]
Responded(status, value) == [state |-> "returned", status |-> status, value |-> value]
\* An error that leaves the handler: no response is made by the handler.
Thrown(error) == [state |-> "threw", status |-> 0, value |-> error]

\* One remote call: chat and text are those of a chat send, file the file
\* id of a vector attach.
Call(api) == [api |-> api, chat |-> 0, text |-> <<>>, file |-> ""]

\* JavaScript truthiness of a text or undefined.
Truthy(text) == text # Undefined /\ text # <<>>

\* `${x}` in a template literal.
Str(text) == IF text = Undefined THEN UndefinedText ELSE text

FileIds == {"file-a", "file-b"}

\* The state of a worker no event has reached yet.
HandlerInit ==
    /\ event = NoEvent
    /\ pc = "idle"
    /\ route = ""
    /\ result = Running
    /\ bodyRead = FALSE
    /\ bot = FALSE
    /\ constructions = 0
    /\ calls = <<>>
    /\ inflight = {}
    /\ storePc = "idle"
    /\ notifyPc = "idle"
    /\ completion = NoReply
    /\ msgContent = NoReply
    /\ transactionDetails = NoValue
    /\ delivered = <<>>
    /\ uploaded = {}
    /\ attached = {}
    /\ pending = 0
    /\ storeError = ""
    /\ storeResponses = <<>>
    /\ trace = <<>>
    /\ intent = ""

\* The worker before any event, with no function called on its own.
Init ==
    /\ HandlerInit
    /\ NormIdle
    /\ DateIdle
    /\ SendersIdle

\* ------------------------------------------------------------------ sends
\* constructsBot with no cached client looked at: a client for every send.
constructsBotAlways(cached) == TRUE

\* if (!bot): a client is constructed when none is cached.
constructsBot(cached) == ~cached

\* if (!bot) bot = new Telegraf(env.TELEGRAM_BOT_TOKEN)
lazyBot ==
    /\ bot' = TRUE
    /\ constructions' = IF constructsBot(bot) THEN constructions + 1 ELSE constructions

\* sendDestination with the reply addressed to the inbound message's sender.
sendDestinationSender(inbound) == inbound.from

\* The chat a message is sent to while the trigger inbound is served:
\* sendTelegramMessage always passes env.TELEGRAM_CHAT_ID.
sendDestination(inbound) == TELEGRAM_CHAT_ID

\* The call sendTelegramMessage issues for a message (a text) while the
\* trigger inbound is served.
sendCall(inbound, message) ==
    [Call("sendMessage") EXCEPT !.chat = sendDestination(inbound),
                                !.text = normalize(message)]

\* The rule under a transaction or report message.
Dashes == [i \in 1..18 |-> "-"]

\* formatTransactionDetails without its error line: every record is printed
\* as a new transaction.
formatTransactionDetailsNoError(details) ==
    <<"LBL_NEW_TRANSACTION">> \o Str(details.message)
    \o <<"LBL_FROM">>
    \o (IF Truthy(details.bank_name) THEN details.bank_name ELSE <<"N", "/", "A">>)
    \o <<"LBL_DATE">>
    \o (IF Truthy(details.datetime) THEN details.datetime ELSE <<"N", "/", "A">>)
    \o <<"\n">> \o Dashes

\* formatTransactionDetails
formatTransactionDetails(details) ==
    IF Truthy(details.error)
    THEN <<"LBL_TRANSACTION_ERROR">> \o details.error
    ELSE <<"LBL_NEW_TRANSACTION">> \o Str(details.message)
         \o <<"LBL_FROM">>
         \o (IF Truthy(details.bank_name) THEN details.bank_name ELSE <<"N", "/", "A">>)
         \o <<"LBL_DATE">>
         \o (IF Truthy(details.datetime) THEN details.datetime ELSE <<"N", "/", "A">>)
         \o <<"\n">> \o Dashes

\* ------------------------------------------------------ Transaction Extractor
\* isFailedSentinel comparing with a misspelt sentinel.
isFailedSentinelMisspelt(content) == content.o.result = <<"f", "a", "i", "l">>

\* content.result === "failed"
isFailedSentinel(content) == content.o.result = FailedText

\* processTransaction from the completion's content on: what it returns
\* (a value) or throws.
processTransaction(content) ==
    LET contentStr == stripBackticks(content) IN
    IF ~Truthy(contentStr) THEN [threw |-> "", value |-> NoValue]
    ELSE LET parsed == JSONparse(contentStr) IN
         IF parsed.t = "SyntaxError" THEN [threw |-> "SyntaxError", value |-> NoValue]
         ELSE IF parsed.t = "null" THEN [threw |-> "TypeError", value |-> NoValue]
         ELSE IF isFailedSentinel(parsed) THEN [threw |-> "", value |-> NoValue]
         ELSE [threw |-> "", value |-> parsed]

\* Falsy testing for undefined only: false passes for a record.
FalsyUndefinedOnly(value) == value.t = "undefined"

\* !transactionDetails
Falsy(value) == value.t \in {"undefined", "null", "false"}

\* returnValue with the function's own value answered on the webhook.
returnValueOwn(r, value) ==
    IF r = "email" THEN Returned(value) ELSE Responded(200, value)

\* What the handler answers once the function of this route has returned
\* (assistantOcr's and assistantManualTransaction's own value is dropped by
\* app.post, which answers "Success").
returnValue(r, value) ==
    IF r = "email" THEN Returned(value) ELSE Responded(200, "Success")

\* ---------------------------------------------------------- remote outcomes
\* How a fetch settles: a 2xx response, another response, or a rejection.
FetchOutcomes == {"2xx", "non2xx", "rejected"}

\* The reply of a completion whose request failed.
TransportFailure == <<"<rejected>">>

\* The last call of an api among the calls issued.
lastCall(api) ==
    LET at == {i \in 1..Len(calls) : calls[i].api = api} IN
    calls[CHOOSE i \in at : \A j \in at : j <= i]

\* ------------------------------------------------- store and notify, paired
\* promiseAll as Promise.allSettled would settle: fulfilled once both have
\* settled, whatever their outcome.
promiseAllSettled(store, notify) ==
    IF store \in {"done", "failed"} /\ notify \in {"done", "failed"} THEN "fulfilled"
    ELSE "pending"

\* promiseAll as Promise.any would settle: fulfilled as soon as one is.
promiseAny(store, notify) ==
    IF store = "done" \/ notify = "done" THEN "fulfilled"
    ELSE IF store = "failed" /\ notify = "failed" THEN "rejected"
    ELSE "pending"

\* Promise.all over the two promises: rejected as soon as one is, fulfilled
\* once both are.
promiseAll(store, notify) ==
    IF store = "failed" \/ notify = "failed" THEN "rejected"
    ELSE IF store = "done" /\ notify = "done" THEN "fulfilled"
    ELSE "pending"

\* The handler parked at await Promise.all([...]) resumes in the same turn in
\* which the combined promise settles; error is the reason of the rejection.
awaitAll(store, notify, error) ==
    IF pc # "all" THEN UNCHANGED <<pc, result>>
    ELSE IF promiseAll(store, notify) = "rejected"
         THEN pc' = "done" /\ result' = Thrown(error)
    ELSE IF promiseAll(store, notify) = "fulfilled"
         THEN pc' = "done" /\ result' = returnValue(route, "Email processed successfully")
    ELSE UNCHANGED <<pc, result>>

\* storeAndNotify with the notification issued twice.
storeAndNotifyTwice(details) ==
    /\ transactionDetails' = details
    /\ calls' = calls \o <<Call("files"), sendCall(event, formatTransactionDetails(details.o)),
                           sendCall(event, formatTransactionDetails(details.o))>>
    /\ inflight' = {"files", "sendMessage"}
    /\ storePc' = "upload"
    /\ notifyPc' = "send"
    /\ lazyBot
    /\ pc' = "all"
    /\ UNCHANGED result

\* Promise.all([storeTransaction(details, env), notifyServices(details, env)]):
\* both run to their first await, the upload and the chat send.
storeAndNotify(details) ==
    /\ transactionDetails' = details
    /\ calls' = calls \o <<Call("files"), sendCall(event, formatTransactionDetails(details.o))>>
    /\ inflight' = {"files", "sendMessage"}
    /\ storePc' = "upload"
    /\ notifyPc' = "send"
    /\ lazyBot
    /\ pc' = "all"
    /\ UNCHANGED result

\* The status texts a response that is not 2xx may carry.
StatusTexts == {"Bad Gateway", "Too Many Requests"}

\* What a fetch resolves to: ok, statusText and, from the body, the id.
Response(ok, statusText, id) == [ok |-> ok, statusText |-> statusText, id |-> id]

\* A fetch that rejects resolves to no response.
FetchRejected == Response(FALSE, "<rejected>", "")

UploadResponses ==
    {Response(TRUE, "OK", id) : id \in FileIds}
    \cup {Response(FALSE, t, "") : t \in StatusTexts}

AttachResponses ==
    {Response(TRUE, "OK", "")} \cup {Response(FALSE, t, "") : t \in StatusTexts}

\* responseFailed blind to the status: every response passes.
responseFailedNever(response) == FALSE

\* !uploadResponse.ok, !vectorStoreResponse.ok
responseFailed(response) == ~response.ok

\* new Error of storeTransaction's two throws.
uploadError(response) == "Upload transaction file error: " \o response.statusText
attachError(response) == "Error adding file to vector store: " \o response.statusText

\* storeTransaction rejects with error; the handler learns of it if it is
\* still parked at Promise.all.
storeThrows(error) ==
    /\ storePc' = "failed"
    /\ storeError' = error
    /\ awaitAll("failed", notifyPc, error)

\* storeTransaction after the upload settled.
UploadResponds ==
    /\ storePc = "upload"
    /\ \E response \in UploadResponses \cup {FetchRejected} :
        IF response = FetchRejected
        THEN /\ storeThrows("TypeError: fetch failed")
             /\ inflight' = inflight \ {"files"}
             /\ UNCHANGED <<uploaded, calls, storeResponses>>
        ELSE /\ storeResponses' = Append(storeResponses, response)
             /\ uploaded' = IF response.ok THEN uploaded \cup {response.id} ELSE uploaded
             /\ IF responseFailed(response)
                THEN /\ storeThrows(uploadError(response))
                     /\ inflight' = inflight \ {"files"}
                     /\ UNCHANGED calls
                ELSE /\ storePc' = "attach"
                     /\ calls' = Append(calls, [Call("vector_stores") EXCEPT !.file = response.id])
                     /\ inflight' = (inflight \ {"files"}) \cup {"vector_stores"}
                     /\ UNCHANGED <<pc, result, storeError>>
    /\ UNCHANGED <<event, route, bodyRead, bot, constructions, notifyPc, completion, msgContent,
                   transactionDetails, delivered, attached, pending,
                   trace, intent, pureVars, senders>>

\* storeTransaction after the vector attach settled.
AttachResponds ==
    /\ storePc = "attach"
    /\ \E response \in AttachResponses \cup {FetchRejected} :
        /\ inflight' = inflight \ {"vector_stores"}
        /\ IF response = FetchRejected
           THEN /\ storeThrows("TypeError: fetch failed")
                /\ UNCHANGED <<attached, storeResponses>>
           ELSE /\ storeResponses' = Append(storeResponses, response)
                /\ attached' = IF response.ok
                               THEN attached \cup {lastCall("vector_stores").file}
                               ELSE attached
                /\ IF responseFailed(response)
                   THEN storeThrows(attachError(response))
                   ELSE /\ storePc' = "done"
                        /\ awaitAll("done", notifyPc, "")
                        /\ UNCHANGED storeError
    /\ UNCHANGED <<event, route, bodyRead, bot, constructions, calls, notifyPc, completion, msgContent,
                   transactionDetails, delivered, uploaded, pending,
                   trace, intent, pureVars, senders>>

\* notifyServices after the chat send settled.
NotifySendResponds ==
    /\ notifyPc = "send"
    /\ \E ok \in BOOLEAN :
        /\ inflight' = inflight \ {"sendMessage"}
        /\ IF ok
           THEN /\ delivered' = Append(delivered, lastCall("sendMessage").text)
                /\ notifyPc' = "done"
                /\ awaitAll(storePc, "done", "")
           ELSE /\ notifyPc' = "failed"
                /\ awaitAll(storePc, "failed", "TelegramError")
                /\ UNCHANGED delivered
    /\ UNCHANGED <<event, route, bodyRead, bot, constructions, calls, storePc, completion, msgContent,
                   transactionDetails, uploaded, attached, pending,
                   storeError, storeResponses, trace, intent, pureVars, senders>>

\* ------------------------------------------------------------ extraction
\* startExtraction with the call before it not awaited: it stays in flight.
startExtractionNotAwaited(r) ==
    /\ route' = r
    /\ pc' = "completion"
    /\ calls' = Append(calls, Call("chat.completions"))
    /\ inflight' = inflight \cup {"chat.completions"}

\* processTransaction up to its await: the one completion request.
startExtraction(r) ==
    /\ route' = r
    /\ pc' = "completion"
    /\ calls' = Append(calls, Call("chat.completions"))
    /\ inflight' = {"chat.completions"}

\* completionRejected with the rejection caught and taken for no transaction.
completionRejectedCaught(r) == returnValue(r, "Not okay")

\* How the handler of route r ends when the completion request rejects:
\* neither processTransaction nor its caller catches, the error leaves both.
completionRejected(r) == Thrown("APIConnectionError")

\* processTransaction after the completion settled, and its caller (email,
\* assistantOcr or assistantManualTransaction) after it.
CompletionResponds ==
    /\ pc = "completion"
    /\ \E reply \in CompletionContents \cup {TransportFailure} :
        IF reply = TransportFailure
        THEN /\ pc' = "done"
             /\ result' = completionRejected(route)
             /\ inflight' = {}
             /\ UNCHANGED <<completion, transactionDetails, calls, storePc,
                            notifyPc, bot, constructions>>
        ELSE /\ completion' = reply
             /\ LET r == processTransaction(reply) IN
                IF r.threw # ""
                THEN /\ pc' = "done"
                     /\ result' = Thrown(r.threw)
                     /\ inflight' = {}
                     /\ UNCHANGED <<transactionDetails, calls, storePc, notifyPc, bot, constructions>>
                ELSE IF Falsy(r.value)
                THEN /\ pc' = "done"
                     /\ result' = returnValue(route, "Not okay")
                     /\ inflight' = {}
                     /\ transactionDetails' = r.value
                     /\ UNCHANGED <<calls, storePc, notifyPc, bot, constructions>>
                ELSE storeAndNotify(r.value)
    /\ UNCHANGED <<event, route, bodyRead, msgContent, delivered, uploaded,
                   attached, pending,
                   storeError, storeResponses, trace, intent, pureVars, senders>>

\* ------------------------------------------------------------------- mail
\* emailContentEmpty testing for undefined only: an empty body passes.
emailContentEmptyUndefinedOnly(email) ==
    email.mailText = Undefined /\ email.mailHtml = Undefined

\* email.text || email.html is falsy.
emailContentEmpty(email) == ~Truthy(email.mailText) /\ ~Truthy(email.mailHtml)

MailBodies == {Undefined, <<>>, <<"p", "a", "i", "d">>}

\* The email handler up to its first remote call.
MailArrives ==
    /\ pc = "idle"
    /\ \E text \in MailBodies, html \in MailBodies :
        LET email == [NoEvent EXCEPT !.kind = "mail", !.mailText = text, !.mailHtml = html] IN
        /\ event' = email
        /\ IF emailContentEmpty(email)
           THEN /\ pc' = "done"
                /\ result' = Thrown("Error: Email content is empty")
                /\ UNCHANGED <<route, calls, inflight>>
           ELSE /\ startExtraction("email")
                /\ UNCHANGED result
    /\ UNCHANGED <<bodyRead, bot, constructions, storePc, notifyPc, completion, msgContent,
                   transactionDetails, delivered, uploaded, attached, pending,
                   storeError, storeResponses, trace, intent, pureVars, senders>>

\* ---------------------------------------------------------------- webhook
\* secretOk without the test for a missing header.
secretOkIfPresent(header) == ~Truthy(header) \/ header = TELEGRAM_BOT_SECRET_TOKEN

\* isUnknownSender with the comparison inverted.
isUnknownSenderInverted(message) == message.from = TELEGRAM_CHAT_ID

\* verifyAssistantRequest's first test passes: the header is present and is
\* the configured secret.
secretOk(header) == Truthy(header) /\ header = TELEGRAM_BOT_SECRET_TOKEN

\* message.from.id != c.env.TELEGRAM_CHAT_ID
isUnknownSender(message) == message.from # TELEGRAM_CHAT_ID

\* normalize(undefined) reads a property of undefined.
normalizeThrows(message) == message = Undefined

\* message.photo[3] exists.
hasFourthPhoto(message) == message.photo # Undefined /\ Len(message.photo) >= 4

Headers == {Undefined, <<>>, TELEGRAM_BOT_SECRET_TOKEN, <<"s", "4">>}
Senders == {TELEGRAM_CHAT_ID, Stranger}
MessageTexts == {Undefined, <<"h", "i", "!">>}
Photos == {Undefined, <<"p1", "p2">>, <<"p1", "p2", "p3", "p4">>}

UnknownUserNotice == <<"LBL_UNKNOWN_USER">>

\* app.post('/assistant') up to its first remote call: verifyAssistantRequest,
\* then the OCR path (no text) or the intent classification.
WebhookArrives ==
    /\ pc = "idle"
    /\ \E header \in Headers, from \in Senders, text \in MessageTexts, photo \in Photos :
        LET message == [NoEvent EXCEPT !.kind = "webhook", !.header = header,
                                       !.from = from, !.text = text, !.photo = photo] IN
        /\ event' = message
        /\ IF ~secretOk(header)
           THEN /\ pc' = "done"
                /\ result' = Responded(401, "Unauthorized")
                /\ UNCHANGED <<bodyRead, bot, constructions, calls, inflight>>
           ELSE /\ bodyRead' = TRUE
                /\ IF isUnknownSender(message)
                   THEN /\ pc' = "rejectSend"
                        /\ lazyBot
                        /\ calls' = Append(calls, sendCall(message, UnknownUserNotice))
                        /\ inflight' = {"sendMessage"}
                        /\ UNCHANGED result
                   ELSE IF message.text = Undefined
                   THEN IF hasFourthPhoto(message)
                        THEN /\ pc' = "getFile"
                             /\ calls' = Append(calls, Call("getFile"))
                             /\ inflight' = {"getFile"}
                             /\ UNCHANGED <<result, bot, constructions>>
                        ELSE /\ pc' = "done"
                             /\ result' = Thrown("TypeError")
                             /\ UNCHANGED <<bot, constructions, calls, inflight>>
                   ELSE /\ pc' = "classify"
                        /\ calls' = Append(calls, Call("responses.tools"))
                        /\ inflight' = {"responses.tools"}
                        /\ UNCHANGED <<result, bot, constructions>>
    /\ UNCHANGED <<route, storePc, notifyPc, completion, msgContent, transactionDetails,
                   delivered, uploaded, attached, pending,
                   storeError, storeResponses, trace, intent, pureVars, senders>>

\* unknownUserResponse with the status of an authentication failure.
unknownUserResponse401 == Responded(401, "Unauthorized user")

\* c.text("Unauthorized user"): no status is given, the response is a 200.
unknownUserResponse == Responded(200, "Unauthorized user")

\* verifyAssistantRequest after the rejection notice settled.
RejectSendResponds ==
    /\ pc = "rejectSend"
    /\ \E ok \in BOOLEAN :
        IF ok
        THEN /\ delivered' = Append(delivered, lastCall("sendMessage").text)
             /\ result' = unknownUserResponse
        ELSE /\ result' = Thrown("TelegramError")
             /\ UNCHANGED delivered
    /\ pc' = "done"
    /\ inflight' = {}
    /\ UNCHANGED <<event, route, bodyRead, bot, constructions, calls, storePc, notifyPc,
                   completion, msgContent, transactionDetails, uploaded, attached, pending,
                   storeError, storeResponses, trace, intent, pureVars, senders>>

\* downloadTelegramFile after getFile settled: a reply without result makes
\* data.result.file_path throw.
GetFileResponds ==
    /\ pc = "getFile"
    /\ \E outcome \in FetchOutcomes :
        IF outcome = "2xx"
        THEN /\ pc' = "fileDownload"
             /\ calls' = Append(calls, Call("fileDownload"))
             /\ inflight' = {"fileDownload"}
             /\ UNCHANGED result
        ELSE /\ pc' = "done"
             /\ result' = Thrown(IF outcome = "non2xx" THEN "TypeError"
                                 ELSE "TypeError: fetch failed")
             /\ inflight' = {}
             /\ UNCHANGED calls
    /\ UNCHANGED <<event, route, bodyRead, bot, constructions, storePc, notifyPc, completion, msgContent,
                   transactionDetails, delivered, uploaded, attached, pending,
                   storeError, storeResponses, trace, intent, pureVars, senders>>

\* downloadTelegramFile after the file fetch settled (its status is not
\* tested), then imageOcr's completion request.
FileDownloadResponds ==
    /\ pc = "fileDownload"
    /\ \E outcome \in FetchOutcomes :
        IF outcome = "rejected"
        THEN /\ pc' = "done"
             /\ result' = Thrown("TypeError: fetch failed")
             /\ inflight' = {}
             /\ UNCHANGED calls
        ELSE /\ pc' = "ocr"
             /\ calls' = Append(calls, Call("responses.ocr"))
             /\ inflight' = {"responses.ocr"}
             /\ UNCHANGED result
    /\ UNCHANGED <<event, route, bodyRead, bot, constructions, storePc, notifyPc, completion, msgContent,
                   transactionDetails, delivered, uploaded, attached, pending,
                   storeError, storeResponses, trace, intent, pureVars, senders>>

\* imageOcr after its completion settled, then assistantOcr's extraction.
OcrResponds ==
    /\ pc = "ocr"
    /\ \E ok \in BOOLEAN :
        IF ok
        THEN /\ startExtraction("assistantOcr")
             /\ UNCHANGED result
        ELSE /\ pc' = "done"
             /\ result' = Thrown("APIConnectionError")
             /\ inflight' = {}
             /\ UNCHANGED <<route, calls>>
    /\ UNCHANGED <<event, bodyRead, bot, constructions, storePc, notifyPc, completion, msgContent,
                   transactionDetails, delivered, uploaded, attached, pending,
                   storeError, storeResponses, trace, intent, pureVars, senders>>

\* What the classification may answer: a failed request, no output item, a
\* plain message (no name), a tool call by name, a manual-transaction call
\* whose arguments are not JSON.
Classifications ==
    {"rejected", "no output", "message", "assistantManualTransaction",
     "assistantManualTransaction bad arguments", "assistantQuestion",
     "assistantOcr", "assistantUnknown"}

\* The functions the classification request offers in available_functions.
OfferedFunctions == {"assistantQuestion", "assistantOcr", "assistantManualTransaction"}

\* response.output[0].name of a classification: "" where there is none.
nameOf(choice) ==
    CASE choice \in {"rejected", "no output", "message"} -> ""
      [] choice = "assistantManualTransaction bad arguments" -> "assistantManualTransaction"
      [] OTHER -> choice

\* assistantQuestion and createAndProcessScheduledReport up to their first
\* await: the job creation.
startJob(r) ==
    /\ route' = r
    /\ pc' = "createAndRun"
    /\ calls' = Append(calls, Call("createAndRun"))
    /\ inflight' = {"createAndRun"}

\* app.post('/assistant') after the classification settled: the switch on
\* response.output[0].name.
ClassifyResponds ==
    /\ pc = "classify"
    /\ \E choice \in Classifications :
        /\ intent' = nameOf(choice)
        /\ CASE choice = "rejected" ->
                   /\ pc' = "done"
                   /\ result' = Thrown("APIConnectionError")
                   /\ inflight' = {}
                   /\ UNCHANGED <<route, calls>>
             [] choice = "no output" ->
                   /\ pc' = "done"
                   /\ result' = Thrown("TypeError")
                   /\ inflight' = {}
                   /\ UNCHANGED <<route, calls>>
             [] choice = "assistantManualTransaction bad arguments" ->
                   /\ pc' = "done"
                   /\ result' = Thrown("SyntaxError")
                   /\ inflight' = {}
                   /\ UNCHANGED <<route, calls>>
             [] choice = "assistantManualTransaction" ->
                   /\ startExtraction("assistantManualTransaction")
                   /\ UNCHANGED result
             [] choice = "assistantQuestion" ->
                   /\ startJob("question")
                   /\ UNCHANGED result
             [] OTHER ->
                   /\ pc' = "done"
                   /\ result' = Responded(200, "Request completed")
                   /\ inflight' = {}
                   /\ UNCHANGED <<route, calls>>
    /\ UNCHANGED <<event, bodyRead, bot, constructions, storePc, notifyPc, completion, msgContent,
                   transactionDetails, delivered, uploaded, attached, pending,
                   storeError, storeResponses, trace, pureVars, senders>>

\* ------------------------------------------------------------------- cron
\* The switch of scheduled: the report type of a cron identity, "" for one it
\* does not know.
reportTypeOf(cron) ==
    CASE cron = "0 15 * * *" -> "ngay"
      [] cron = "58 16 * * 0" -> "tuan"
      [] cron = "0 15 1 * *" -> "thang"
      [] OTHER -> ""

\* triggers.crons of wrangler.toml.
ConfiguredCrons == {"0 15 * * *", "58 16 * * 1", "0 15 1 * *"}

\* The identities scheduled may be run with: the configured ones and the
\* ones its switch names.
Crons == ConfiguredCrons \cup {"58 16 * * 0"}

\* scheduled up to its first remote call.
CronFires ==
    /\ pc = "idle"
    /\ \E cron \in Crons :
        /\ event' = [NoEvent EXCEPT !.kind = "cron", !.cron = cron]
        /\ IF reportTypeOf(cron) = ""
           THEN /\ pc' = "done"
                /\ result' = Returned("")
                /\ UNCHANGED <<route, calls, inflight>>
           ELSE /\ startJob("report")
                /\ UNCHANGED result
    /\ UNCHANGED <<bodyRead, bot, constructions, storePc, notifyPc, completion, msgContent,
                   transactionDetails, delivered, uploaded, attached, pending,
                   storeError, storeResponses, trace, intent, pureVars, senders>>

\* ------------------------------------------------------------- job, poller
CreateAndRunResponds ==
    /\ pc = "createAndRun"
    /\ \E ok \in BOOLEAN :
        IF ok
        THEN /\ pc' = "retrieve"
             /\ calls' = Append(calls, Call("runs.retrieve"))
             /\ inflight' = {"runs.retrieve"}
             /\ UNCHANGED result
        ELSE /\ pc' = "done"
             /\ result' = Thrown("APIConnectionError")
             /\ inflight' = {}
             /\ UNCHANGED calls
    /\ UNCHANGED <<event, route, bodyRead, bot, constructions, storePc, notifyPc, completion, msgContent,
                   transactionDetails, delivered, uploaded, attached, pending,
                   storeError, storeResponses, trace, intent, pureVars, senders>>

PendingStatuses == {"queued", "in_progress"}
RunStatuses ==
    PendingStatuses
    \cup {"completed", "failed", "cancelled", "expired", "requires_action"}

\* shouldWait with in_progress left out of the list.
shouldWaitQueuedOnly(status) == status = "queued"

\* shouldWait testing for completion instead of for the pending statuses.
shouldWaitUntilCompleted(status) == status # "completed"

\* shouldWait with the loop never repeating.
shouldWaitNever(status) == FALSE

\* ["queued", "in_progress"].includes(run.status), the test of both the if
\* and the while of waitForCompletion.
shouldWait(status) == status \in PendingStatuses

\* retrieveSettled sleeping without the log line.
retrieveSettledSilent(status) ==
    IF status = "rejected"
    THEN /\ pc' = "done"
         /\ result' = Thrown("APIConnectionError")
         /\ inflight' = {}
         /\ UNCHANGED <<calls, pending, trace>>
    ELSE IF shouldWait(status)
    THEN /\ trace' = IF pending < MaxPending
                     THEN trace \o <<status, "sleep">>
                     ELSE trace
         /\ pending' = IF pending < MaxPending THEN pending + 1 ELSE MaxPending + 1
         /\ pc' = "sleep"
         /\ inflight' = {}
         /\ UNCHANGED <<calls, result>>
    ELSE /\ trace' = Append(trace, status)
         /\ pc' = "list"
         /\ calls' = Append(calls, Call("messages.list"))
         /\ inflight' = {"messages.list"}
         /\ UNCHANGED <<result, pending>>

\* waitForCompletion after a status fetch settled: on a status it waits for,
\* the log line and the sleep; on another, the return to the caller, which
\* requests the message list. Past MaxPending rounds the loop goes on but
\* the rounds are no longer recorded in calls and trace.
retrieveSettled(status) ==
    IF status = "rejected"
    THEN /\ pc' = "done"
         /\ result' = Thrown("APIConnectionError")
         /\ inflight' = {}
         /\ UNCHANGED <<calls, pending, trace>>
    ELSE IF shouldWait(status)
    THEN /\ trace' = IF pending < MaxPending
                     THEN trace \o <<status, "info", "sleep">>
                     ELSE trace
         /\ pending' = IF pending < MaxPending THEN pending + 1 ELSE MaxPending + 1
         /\ pc' = "sleep"
         /\ inflight' = {}
         /\ UNCHANGED <<calls, result>>
    ELSE /\ trace' = Append(trace, status)
         /\ pc' = "list"
         /\ calls' = Append(calls, Call("messages.list"))
         /\ inflight' = {"messages.list"}
         /\ UNCHANGED <<result, pending>>

\* A status fetch settles, the loop repeating at most MaxPending times.
RetrieveResponds ==
    /\ pc = "retrieve"
    /\ \E status \in RunStatuses \cup {"rejected"} :
        /\ shouldWait(status) => pending < MaxPending
        /\ retrieveSettled(status)
    /\ UNCHANGED <<event, route, bodyRead, bot, constructions, storePc, notifyPc, completion, msgContent,
                   transactionDetails, delivered, uploaded, attached,
                   storeError, storeResponses, intent, pureVars, senders>>

\* A status fetch succeeds while the job is still queued or in progress.
RetrieveStaysPending ==
    /\ pc = "retrieve"
    /\ \E status \in PendingStatuses : retrieveSettled(status)
    /\ UNCHANGED <<event, route, bodyRead, bot, constructions, storePc, notifyPc, completion, msgContent,
                   transactionDetails, delivered, uploaded, attached,
                   storeError, storeResponses, intent, pureVars, senders>>

\* A status fetch succeeds once the job has left the pending statuses.
RetrieveLeavesPending ==
    /\ pc = "retrieve"
    /\ \E status \in RunStatuses \ PendingStatuses : retrieveSettled(status)
    /\ UNCHANGED <<event, route, bodyRead, bot, constructions, storePc, notifyPc, completion, msgContent,
                   transactionDetails, delivered, uploaded, attached,
                   storeError, storeResponses, intent, pureVars, senders>>

\* waitForCompletion after sleep(500): the next status fetch.
SleepElapses ==
    /\ pc = "sleep"
    /\ pc' = "retrieve"
    /\ calls' = IF pending > MaxPending THEN calls
                ELSE Append(calls, Call("runs.retrieve"))
    /\ inflight' = {"runs.retrieve"}
    /\ UNCHANGED <<event, route, result, bodyRead, bot, constructions, storePc, notifyPc,
                   completion, msgContent, transactionDetails, delivered, uploaded,
                   attached, pending,
                   storeError, storeResponses, trace, intent, pureVars, senders>>

\* threadMessages[0]?.content[0]?.text?.value for the lists a job may leave:
\* no reply text, a text, a text with a citation marker.
ReplyTexts ==
    {Undefined, <<"o", "k", ".">>,
     <<"o", "k", MarkOpen, "4", ":", "0">> \o SourceTail}

reportTypeText(type) ==
    CASE type = "ngay" -> <<"n", "g", "a", "y">>
      [] type = "tuan" -> <<"t", "u", "a", "n">>
      [] OTHER -> <<"t", "h", "a", "n", "g">>

\* The message createAndProcessScheduledReport builds.
reportMessage(type, content) ==
    <<"LBL_REPORT_HEAD">> \o reportTypeText(type) \o <<"LBL_REPORT_TAIL">>
    \o Str(content) \o <<"\n">> \o Dashes

\* createAndProcessScheduledReport and assistantQuestion after the message
\* list settled: the chat send.
ListResponds ==
    /\ pc = "list"
    /\ \E ok \in BOOLEAN, text \in ReplyTexts :
        IF ~ok
        THEN /\ pc' = "done"
             /\ result' = Thrown("APIConnectionError")
             /\ inflight' = {}
             /\ UNCHANGED <<calls, bot, constructions, msgContent>>
        ELSE /\ msgContent' = text
             /\ lazyBot
             /\ IF route = "report"
                THEN /\ pc' = "reportSend"
                     /\ calls' = Append(calls,
                            sendCall(event, reportMessage(reportTypeOf(event.cron), text)))
                     /\ inflight' = {"sendMessage"}
                     /\ UNCHANGED result
                ELSE IF normalizeThrows(text)
                THEN /\ pc' = "done"
                     /\ result' = Thrown("TypeError")
                     /\ inflight' = {}
                     /\ UNCHANGED calls
                ELSE /\ pc' = "questionSend"
                     /\ calls' = Append(calls, sendCall(event, text))
                     /\ inflight' = {"sendMessage"}
                     /\ UNCHANGED result
    /\ UNCHANGED <<event, route, bodyRead, storePc, notifyPc, completion,
                   transactionDetails, delivered, uploaded, attached, pending,
                   storeError, storeResponses, trace, intent, pureVars, senders>>

\* createAndProcessScheduledReport after its chat send settled.
ReportSendResponds ==
    /\ pc = "reportSend"
    /\ \E ok \in BOOLEAN :
        IF ok
        THEN /\ delivered' = Append(delivered, lastCall("sendMessage").text)
             /\ result' = Returned("")
        ELSE /\ result' = Thrown("TelegramError")
             /\ UNCHANGED delivered
    /\ pc' = "done"
    /\ inflight' = {}
    /\ UNCHANGED <<event, route, bodyRead, bot, constructions, calls, storePc, notifyPc,
                   completion, msgContent, transactionDetails, uploaded, attached, pending,
                   storeError, storeResponses, trace, intent, pureVars, senders>>

\* assistantQuestion after its chat send settled; app.post drops its
\* response and answers "Success".
QuestionSendResponds ==
    /\ pc = "questionSend"
    /\ \E ok \in BOOLEAN :
        IF ok
        THEN /\ delivered' = Append(delivered, lastCall("sendMessage").text)
             /\ result' = Responded(200, "Success")
        ELSE /\ result' = Thrown("TelegramError")
             /\ UNCHANGED delivered
    /\ pc' = "done"
    /\ inflight' = {}
    /\ UNCHANGED <<event, route, bodyRead, bot, constructions, calls, storePc, notifyPc,
                   completion, msgContent, transactionDetails, uploaded, attached, pending,
                   storeError, storeResponses, trace, intent, pureVars, senders>>

\* The runtime is done with the invocation: the next trigger finds the
\* module's state (the cached bot) as this one left it.
Finish ==
    /\ pc = "done"
    /\ inflight = {}
    /\ event' = NoEvent
    /\ pc' = "idle"
    /\ route' = ""
    /\ result' = Running
    /\ bodyRead' = FALSE
    /\ calls' = <<>>
    /\ storePc' = "idle"
    /\ notifyPc' = "idle"
    /\ completion' = NoReply
    /\ msgContent' = NoReply
    /\ transactionDetails' = NoValue
    /\ delivered' = <<>>
    /\ uploaded' = {}
    /\ attached' = {}
    /\ pending' = 0
    /\ storeError' = ""
    /\ storeResponses' = <<>>
    /\ trace' = <<>>
    /\ intent' = ""
    /\ UNCHANGED <<bot, constructions, inflight, pureVars, senders>>

Next ==
    \/ MailArrives
    \/ WebhookArrives
    \/ CronFires
    \/ RejectSendResponds
    \/ GetFileResponds
    \/ FileDownloadResponds
    \/ OcrResponds
    \/ ClassifyResponds
    \/ CreateAndRunResponds
    \/ RetrieveResponds
    \/ SleepElapses
    \/ ListResponds
    \/ ReportSendResponds
    \/ QuestionSendResponds
    \/ CompletionResponds
    \/ UploadResponds
    \/ AttachResponds
    \/ NotifySendResponds
    \/ Finish

Spec == Init /\ [][Next]_vars

\* The worker with a poll loop that is not cut off: every status fetch
\* succeeds, and the loop repeats for as long as the job stays pending.
LiveNext ==
    \/ MailArrives
    \/ WebhookArrives
    \/ CronFires
    \/ RejectSendResponds
    \/ GetFileResponds
    \/ FileDownloadResponds
    \/ OcrResponds
    \/ ClassifyResponds
    \/ CreateAndRunResponds
    \/ RetrieveStaysPending
    \/ RetrieveLeavesPending
    \/ SleepElapses
    \/ ListResponds
    \/ ReportSendResponds
    \/ QuestionSendResponds
    \/ CompletionResponds
    \/ UploadResponds
    \/ AttachResponds
    \/ NotifySendResponds
    \/ Finish

\* The runtime fires the timer of sleep(500), and the job leaves the pending
\* statuses at some time: a loop that keeps fetching reads that at some fetch.
LiveSpec ==
    /\ Init
    /\ [][LiveNext]_vars
    /\ WF_vars(SleepElapses)
    /\ SF_vars(RetrieveLeavesPending)

\* The same worker with a job that may stay pending for ever.
StuckSpec ==
    /\ Init
    /\ [][LiveNext]_vars
    /\ WF_vars(SleepElapses)
    /\ WF_vars(RetrieveStaysPending \/ RetrieveLeavesPending)

\* ------------------------------------------------- normalize on its own
\* The variables of the handlers.
handlerVars ==
    <<event, pc, route, result, bodyRead, bot, constructions, calls, inflight, storePc,
      notifyPc, completion, msgContent, transactionDetails, delivered,
      uploaded, attached, pending, storeError, storeResponses, trace, intent>>

\* The most pieces a text handed to normalize is made of.
MaxPieces == 3

\* The pieces: a plain letter, two escaped characters, a backslash, the
\* opening half of a citation marker, a whole marker, the closing half.
Pieces ==
    {<<"a">>, <<".">>, <<"_">>, <<"\\">>,
     <<MarkOpen, "1">>,
     <<MarkOpen, "2", ":", "3">> \o SourceTail,
     <<":", "4">> \o SourceTail}

\* The texts made of at most n pieces.
RECURSIVE textsOf(_)
textsOf(n) ==
    IF n = 0 THEN {<<>>}
    ELSE textsOf(n - 1) \cup {t \o p : t \in textsOf(n - 1), p \in Pieces}

NormInputs == textsOf(MaxPieces)

\* Some text is about to be normalized.
NormInit ==
    /\ HandlerInit
    /\ DateIdle
    /\ SendersIdle
    /\ normInput \in NormInputs
    /\ normOutput = NoReply
    /\ normAgain = NoReply

\* normalize(text)
Normalize ==
    /\ normOutput = NoReply
    /\ normOutput' = normalize(normInput)
    /\ UNCHANGED <<normInput, normAgain, clock, runtimeOffset, weekRange, handlerVars, senders>>

\* normalize(normalize(text))
NormalizeAgain ==
    /\ normOutput # NoReply
    /\ normAgain = NoReply
    /\ normAgain' = normalize(normOutput)
    /\ UNCHANGED <<normInput, normOutput, clock, runtimeOffset, weekRange, handlerVars, senders>>

NormNext ==
    \/ Normalize
    \/ NormalizeAgain

NormSpec == NormInit /\ [][NormNext]_vars

\* -------------------------------------------------- formatDate on its own
\* Time is counted in hours from 1 December 2024, 00:00 UTC, a Sunday; a
\* calendar day is named by its number from that day on, in some time zone.
\* The months the days fall in: December 2024, January and February 2025.
MonthLengths == <<31, 31, 28>>

\* The number of the first day of month m.
monthStart(m) ==
    IF m = 1 THEN 0
    ELSE IF m = 2 THEN MonthLengths[1]
    ELSE MonthLengths[1] + MonthLengths[2]

\* The month a day falls in.
monthOf(day) ==
    CHOOSE m \in 1..Len(MonthLengths) :
        monthStart(m) <= day /\ day < monthStart(m) + MonthLengths[m]

\* The day of the week of a day: 0 is Sunday.
weekday(day) == day % 7

\* The calendar day of time t where local time is off hours ahead of UTC.
dayAt(t, off) == (t + off) \div 24

\* Date.prototype.getDate and getDay: local day of the month, local weekday.
getDate(t, off) == dayAt(t, off) - monthStart(monthOf(dayAt(t, off))) + 1
getDay(t, off) == weekday(dayAt(t, off))

\* Date.prototype.setDate(n): the time of the n-th day of the local month at
\* the same local time of day; n below 1 runs into the months before.
setDate(t, off, n) ==
    t + 24 * ((monthStart(monthOf(dayAt(t, off))) + n - 1) - dayAt(t, off))

\* The hours Asia/Bangkok is ahead of UTC.
BangkokOffset == 7

\* toLocaleDateString('vi-VN', { timeZone: "Asia/Bangkok" }): the calendar
\* day of t in Bangkok (printed as d/M/yyyy).
toLocaleDateString(t) == dayAt(t, BangkokOffset)

\* formatDate('tuan'): the two days its range names.
formatDateWeek(t, off) ==
    LET currentSunday == setDate(t, off, getDate(t, off) - getDay(t, off))
        lastMonday == setDate(currentSunday, off, getDate(currentSunday, off) - 6)
    IN [from |-> toLocaleDateString(lastMonday), to |-> toLocaleDateString(currentSunday)]

\* The number of consecutive days formatDate is called on.
MaxDays == 21

\* The first of them: 25 December 2024.
FirstDay == MonthLengths[1] - 7

\* The hours of the day it is called at: 16 is the hour of the weekly cron.
Hours == {0, 16, 17, 23}

\* The times new Date() may read.
Clocks == {24 * d + h : d \in FirstDay..(FirstDay + MaxDays - 1), h \in Hours}

\* The runtime's local time: UTC (the Workers runtime) or Bangkok's.
RuntimeOffsets == {0, BangkokOffset}

DateInit ==
    /\ HandlerInit
    /\ NormIdle
    /\ SendersIdle
    /\ clock \in Clocks
    /\ runtimeOffset \in RuntimeOffsets
    /\ weekRange = NoRange

\* formatDate('tuan')
FormatWeek ==
    /\ weekRange = NoRange
    /\ weekRange' = formatDateWeek(clock, runtimeOffset)
    /\ UNCHANGED <<clock, runtimeOffset, normInput, normOutput, normAgain, handlerVars, senders>>

DateNext == FormatWeek

DateSpec == DateInit /\ [][DateNext]_vars

\* ----------------------------------------- sendTelegramMessage on its own
\* The variables of the handler other than the cached client.
triggerVars ==
    <<event, pc, route, result, bodyRead, calls, inflight, storePc,
      notifyPc, completion, msgContent, transactionDetails, delivered,
      uploaded, attached, pending, storeError, storeResponses, trace, intent>>

\* The most clients constructed in one run of the process.
MaxConstructions == 3

\* sendTelegramMessage of index.ts up to its await: the client is taken from
\* the cache or constructed, and the transport's send is started.
SendStarts(s) ==
    /\ senders[s].pc = "ready"
    /\ constructsBot(bot) => constructions < MaxConstructions
    /\ lazyBot
    /\ senders' = [senders EXCEPT ![s] = Sender("awaiting", "inflight")]
    /\ UNCHANGED <<triggerVars, pureVars>>

\* sendTelegramMessage of index.ts after the transport's send settled: the
\* success is logged and the caller goes on, or the rejection leaves both.
SendSettles(s) ==
    /\ senders[s].pc = "awaiting"
    /\ \E ok \in BOOLEAN :
        senders' = [senders EXCEPT ![s] = IF ok THEN Sender("returned", "delivered")
                                           ELSE Sender("threw", "failed")]
    /\ UNCHANGED <<bot, constructions, triggerVars, pureVars>>

\* The trigger that sent has ended; another one sends.
NextTrigger(s) ==
    /\ senders[s].pc \in {"returned", "threw"}
    /\ senders[s].send # "inflight"
    /\ senders' = [senders EXCEPT ![s] = Sender("ready", "none")]
    /\ UNCHANGED <<bot, constructions, triggerVars, pureVars>>

BotNext ==
    \E s \in 1..MaxSenders :
        \/ SendStarts(s)
        \/ SendSettles(s)
        \/ NextTrigger(s)

BotSpec == Init /\ [][BotNext]_vars

\* sendTelegramMessage of part_000: a client is constructed, the transport's
\* send is started and not awaited; the function returns and its caller goes
\* on (logs the success, returns its acknowledgment).
DraftSendStarts(s) ==
    /\ senders[s].pc = "ready"
    /\ constructions < MaxConstructions
    /\ constructions' = constructions + 1
    /\ senders' = [senders EXCEPT ![s] = Sender("returned", "inflight")]
    /\ UNCHANGED <<bot, triggerVars, pureVars>>

\* The transport's send of part_000 settles with nobody awaiting it.
DraftSendSettles(s) ==
    /\ senders[s].send = "inflight"
    /\ \E ok \in BOOLEAN :
        senders' = [senders EXCEPT ![s].send = IF ok THEN "delivered" ELSE "failed"]
    /\ UNCHANGED <<bot, constructions, triggerVars, pureVars>>

DraftNext ==
    \E s \in 1..MaxSenders :
        \/ DraftSendStarts(s)
        \/ DraftSendSettles(s)
        \/ NextTrigger(s)

DraftSpec == Init /\ [][DraftNext]_vars

\* ----------------------------------------------------------------- claims
\* The apis of the calls issued so far.
issuedApis == {calls[i].api : i \in 1..Len(calls)}

\* How many calls of an api were issued so far.
issuedCount(api) == Cardinality({i \in 1..Len(calls) : calls[i].api = api})

\* The handler has returned or thrown.
handlerCompleted == result.state # "pending"

\* The webhook call's secret header is missing (absent or empty) or differs
\* from the configured secret.
badSecret ==
    /\ event.kind = "webhook"
    /\ (event.header = Undefined \/ event.header = <<>>
        \/ event.header # TELEGRAM_BOT_SECRET_TOKEN)

\* The webhook call carries the secret and comes from another sender than
\* the configured chat.
unknownSender ==
    /\ event.kind = "webhook"
    /\ event.header = TELEGRAM_BOT_SECRET_TOKEN
    /\ event.from # TELEGRAM_CHAT_ID

\* C1: a webhook call whose secret header is missing or wrong is answered
\* 401 "Unauthorized", has issued no remote call and has not read the body.
C1_BadSecretRejected ==
    badSecret =>
        /\ result = Responded(401, "Unauthorized")
        /\ calls = <<>>
        /\ inflight = {}
        /\ ~bodyRead
        /\ delivered = <<>> /\ uploaded = {} /\ attached = {}

C1_Witness ==
    /\ event.kind = "webhook"
    /\ event.header = <<"s", "4">>
    /\ event.from = TELEGRAM_CHAT_ID
    /\ result.status = 401

C3_SendsGoToConfiguredChat ==
    \A i \in 1..Len(calls) :
        calls[i].api = "sendMessage" => calls[i].chat = TELEGRAM_CHAT_ID

\* A send was issued while the inbound message came from another id.
C3_Witness ==
    /\ event.kind = "webhook"
    /\ event.from = Stranger
    /\ \E i \in 1..Len(calls) :
        calls[i].api = "sendMessage" /\ calls[i].chat = TELEGRAM_CHAT_ID

\* The extraction reply, backticks stripped, is a document whose result is
\* "failed".
repliedFailed ==
    /\ Truthy(stripBackticks(completion))
    /\ JSONparse(stripBackticks(completion)).t = "object"
    /\ JSONparse(stripBackticks(completion)).o.result = FailedText

\* C4: on each extraction path a reply whose result is "failed" gives "no
\* transaction" and neither store nor notify is started; a record that
\* reaches them never has result "failed".
C4_FailedShortCircuits ==
    /\ repliedFailed =>
        /\ Falsy(transactionDetails)
        /\ storePc = "idle" /\ notifyPc = "idle"
        /\ issuedApis \cap {"files", "vector_stores", "sendMessage"} = {}
        /\ result = returnValue(route, "Not okay")
    /\ (storePc # "idle" \/ notifyPc # "idle") =>
        /\ ~Falsy(transactionDetails)
        /\ transactionDetails.o.result # FailedText

C4_Witness ==
    /\ route = "assistantOcr"
    /\ completion = Fence \o <<"{failed}">> \o Fence
    /\ handlerCompleted

\* The extraction reply, backticks stripped, is not empty and not valid JSON.
repliedNonJson ==
    /\ completion # NoReply
    /\ Truthy(stripBackticks(completion))
    /\ JSONparse(stripBackticks(completion)).t = "SyntaxError"

\* C5: a reply that is not valid JSON makes the extractor return "no
\* transaction" without raising: the invocation ends normally, nothing is
\* stored, nothing is sent.
C5_NonJsonIsNoTransaction ==
    repliedNonJson =>
        /\ result.state = "returned"
        /\ storePc = "idle" /\ notifyPc = "idle"

\* An AI reply was empty: the extraction completion had no or empty content,
\* or the job's message list gave no reply text.
repliedEmpty ==
    \/ ~Truthy(completion)
    \/ msgContent = Undefined

\* C6: an empty AI reply aborts the invocation with an error and no chat
\* send is issued by it.
C6_EmptyReplyAborts ==
    (repliedEmpty /\ handlerCompleted) =>
        /\ result.state = "threw"
        /\ "sendMessage" \notin issuedApis

\* C7: an email with neither a text nor an HTML body makes the mail handler
\* throw before any request: no completion, no store, no send.
C7_EmptyMailThrows ==
    (event.kind = "mail" /\ ~Truthy(event.mailText) /\ ~Truthy(event.mailHtml)) =>
        /\ result = Thrown("Error: Email content is empty")
        /\ calls = <<>>
        /\ inflight = {}
        /\ storePc = "idle" /\ notifyPc = "idle"
        /\ completion = NoReply

C7_Witness ==
    /\ event.kind = "mail"
    /\ event.mailText = <<>>
    /\ event.mailHtml = Undefined
    /\ result.state = "threw"

\* C8: on the mail path a confirmed record starts both the store and the
\* notify; the handler returns "Email processed successfully" only with the
\* upload, the attach and the send all done, and has thrown whenever one of
\* the two has failed.
C8_BothAwaited ==
    event.kind = "mail" =>
        /\ (completion # NoReply /\ ~Falsy(transactionDetails)) =>
            /\ storePc # "idle" /\ notifyPc # "idle"
            /\ {"files", "sendMessage"} \subseteq issuedApis
        /\ result = Returned("Email processed successfully") =>
            /\ storePc = "done" /\ notifyPc = "done"
            /\ uploaded # {} /\ attached = uploaded
            /\ Len(delivered) = 1
        /\ (storePc = "failed" \/ notifyPc = "failed") => result.state = "threw"
        /\ (storePc = "done" /\ notifyPc = "done") =>
            result = Returned("Email processed successfully")

C8_Witness ==
    /\ event.kind = "mail"
    /\ result = Returned("Email processed successfully")
    /\ storePc = "done" /\ notifyPc = "done"

\* C9: once a handler has returned or thrown, no remote call it started is
\* still in flight.
C9_NothingDetached ==
    handlerCompleted => inflight = {}

\* The calls of the store and notify step.
pairedApis == {"files", "vector_stores", "sendMessage"}

\* C10: in the paired step one call's failure leaves the other's effect in
\* place: with the notification delivered and the store failed, or the record
\* stored and the notification failed, the handler has thrown, the delivered
\* message or the stored file is still there, and no call other than the one
\* upload, the one attach and the one send was issued for the pair.
C10_NoRollback ==
    /\ (notifyPc = "done" /\ storePc = "failed") =>
        /\ result.state = "threw"
        /\ Len(delivered) = 1
    /\ (storePc = "done" /\ notifyPc = "failed") =>
        /\ result.state = "threw"
        /\ uploaded # {} /\ attached = uploaded
        /\ delivered = <<>>
    /\ (storePc = "failed" \/ notifyPc = "failed") =>
        /\ \A api \in pairedApis : issuedCount(api) <= 1
        /\ calls[Len(calls)].api \in pairedApis

\* The notification was delivered although the attach was rejected.
C10_Witness ==
    /\ notifyPc = "done"
    /\ storePc = "failed"
    /\ uploaded # {} /\ attached = {}
    /\ Len(delivered) = 1
    /\ result.state = "threw"

\* The record was stored although the notification failed.
C10_StoredButNotNotified ==
    /\ storePc = "done"
    /\ notifyPc = "failed"
    /\ attached # {}
    /\ delivered = <<>>
    /\ result.state = "threw"

\* The positions in calls of the vector attach.
attachAt == {i \in 1..Len(calls) : calls[i].api = "vector_stores"}

\* C11: the vector attach is issued only after the upload was answered 2xx,
\* after the upload call, with the file id that answer carried; an upload
\* answered otherwise makes storeTransaction reject with the upload error and
\* the answer's status text, and no attach is issued; an attach answered
\* otherwise makes it reject with the attach error and the answer's status
\* text, the uploaded file stays in the file store, and the attach is the
\* last call issued.
C11_AttachOnlyAfterUpload ==
    /\ attachAt # {} =>
        /\ storeResponses # <<>>
        /\ storeResponses[1].ok
        /\ \A i \in attachAt :
            /\ calls[i].file = storeResponses[1].id
            /\ \E j \in 1..(i - 1) : calls[j].api = "files"
    /\ (storeResponses # <<>> /\ ~storeResponses[1].ok) =>
        /\ storePc = "failed"
        /\ storeError = "Upload transaction file error: " \o storeResponses[1].statusText
        /\ attachAt = {}
        /\ uploaded = {}
    /\ (Len(storeResponses) = 2 /\ ~storeResponses[2].ok) =>
        /\ storePc = "failed"
        /\ storeError = "Error adding file to vector store: " \o storeResponses[2].statusText
        /\ uploaded = {storeResponses[1].id}
        /\ attached = {}
        /\ calls[Len(calls)].api = "vector_stores"
        /\ Cardinality(attachAt) = 1

\* The attach of an uploaded file was answered 429.
C11_Witness ==
    /\ Len(storeResponses) = 2
    /\ storeResponses[1].ok
    /\ ~storeResponses[2].ok
    /\ storeError = "Error adding file to vector store: Too Many Requests"
    /\ uploaded = {"file-b"}

\* The upload was answered 502.
C11_UploadRefused ==
    /\ Len(storeResponses) = 1
    /\ ~storeResponses[1].ok
    /\ storeError = "Upload transaction file error: Bad Gateway"
    /\ attachAt = {}

\* The statuses the poll loop has read, in order.
statusesRead == SelectSeq(trace, LAMBDA e : e \in RunStatuses)

\* The number of pending statuses among them, and the number of sleeps.
pendingRead == Len(SelectSeq(trace, LAMBDA e : e \in PendingStatuses))
sleepsDone == Len(SelectSeq(trace, LAMBDA e : e = "sleep"))

\* waitForCompletion has returned: its caller has asked for the message list.
pollerReturned == issuedCount("messages.list") >= 1

\* C12: as many sleeps are made as pending statuses were read; the first step
\* of the loop is a fetch; while the loop runs, one fetch was issued per
\* pending status read, plus the one in flight; once the poller has returned
\* after k pending statuses, exactly k + 1 fetches were issued and k sleeps
\* made, the last status read is not pending and all before it are, and no
\* fetch is in flight; with k = 0 that is one fetch and no sleep.
C12_FetchesAndSleeps ==
    /\ sleepsDone = pendingRead
    /\ trace # <<>> => trace[1] \in RunStatuses
    /\ pc \in {"retrieve", "sleep", "list"} => issuedCount("runs.retrieve") >= 1
    /\ pc = "retrieve" => issuedCount("runs.retrieve") = pendingRead + 1
    /\ pc = "sleep" => issuedCount("runs.retrieve") = pendingRead
    /\ pollerReturned =>
        /\ issuedCount("runs.retrieve") = pendingRead + 1
        /\ Len(statusesRead) = pendingRead + 1
        /\ statusesRead[Len(statusesRead)] \notin PendingStatuses
        /\ \A i \in 1..pendingRead : statusesRead[i] \in PendingStatuses
        /\ "runs.retrieve" \notin inflight
        /\ pendingRead = 0 => (issuedCount("runs.retrieve") = 1 /\ sleepsDone = 0)

\* The poller returned on its third fetch, after two sleeps.
C12_Witness ==
    /\ pc = "list"
    /\ statusesRead = <<"queued", "in_progress", "completed">>
    /\ issuedCount("runs.retrieve") = 3
    /\ sleepsDone = 2

\* The first fetch already read completed.
C12_FirstFetchCompleted ==
    /\ pc = "list"
    /\ trace = <<"completed">>
    /\ issuedCount("runs.retrieve") = 1

\* A status outside the pending ones has been read.
leftPendingRead == \E i \in 1..Len(statusesRead) : statusesRead[i] \notin PendingStatuses

\* The poll loop is running: a fetch is in flight or the sleep is.
polling == pc \in {"retrieve", "sleep"}

\* The poller returns within the turn that reads a status outside the pending
\* ones, and not otherwise; while it polls the handler has not ended and has
\* sent nothing.
C13_ReturnsIffLeftPending ==
    /\ pollerReturned <=> leftPendingRead
    /\ polling => (result = Running /\ issuedCount("sendMessage") = 0 /\ delivered = <<>>)

\* C13: the poller returns if and only if a fetch has read a status outside
\* queued and in_progress, and while it polls the invocation has neither
\* ended nor notified; with status fetches that succeed and a job that leaves
\* the pending statuses at some time, a poller that has started returns at
\* some time, whatever the number of rounds before.
C13_PollerTermination ==
    /\ [](C13_ReturnsIffLeftPending)
    /\ (pc = "retrieve") ~> pollerReturned

\* The poller returned after more rounds than MaxPending.
C13_Witness ==
    /\ pending = MaxPending + 1
    /\ pc = "list"
    /\ pollerReturned

\* With a job that may stay pending for ever the poller need not return.
C13_StuckPollerReturns == (pc = "retrieve") ~> pollerReturned

\* C14: each of the three offered function names, once answered by the
\* classification, has its handler run: assistantQuestion creates the job,
\* assistantManualTransaction (with arguments that parse) requests the
\* extraction, assistantOcr does not end in the default branch; and the call
\* is answered "Request completed", with the classification as its last
\* remote call, only for a name that is none of the three.
C14_EveryOfferedIntentDispatched ==
    /\ intent = "assistantQuestion" => issuedCount("createAndRun") = 1
    /\ (intent = "assistantManualTransaction" /\ result # Thrown("SyntaxError")) =>
        issuedCount("chat.completions") = 1
    /\ intent = "assistantOcr" => result # Responded(200, "Request completed")
    /\ result = Responded(200, "Request completed") =>
        /\ intent \notin OfferedFunctions
        /\ calls[Len(calls)].api = "responses.tools"

\* The four acknowledgments app.post('/assistant') chooses.
Acknowledgments ==
    {Responded(401, "Unauthorized"), Responded(200, "Unauthorized user"),
     Responded(200, "Success"), Responded(200, "Request completed")}

\* C15: a webhook call that has ended has ended with one of the four
\* acknowledgments of the dispatcher, whatever the remote calls did and
\* whatever the message held.
C15_WebhookAlwaysAcknowledged ==
    (event.kind = "webhook" /\ handlerCompleted) => result \in Acknowledgments

\* An authorized message with neither text nor photo made the handler throw.
C15_NeitherTextNorPhoto ==
    /\ event.kind = "webhook"
    /\ event.header = TELEGRAM_BOT_SECRET_TOKEN
    /\ event.from = TELEGRAM_CHAT_ID
    /\ event.text = Undefined
    /\ event.photo = Undefined
    /\ result = Thrown("TypeError")
    /\ calls = <<>>

\* What each configured schedule is for: every day at 15:00, every week (day
\* 1 at 16:58), every first of the month at 15:00.
configuredGranularity(cron) ==
    CASE cron = "0 15 * * *" -> "ngay"
      [] cron = "58 16 * * 1" -> "tuan"
      [] cron = "0 15 1 * *" -> "thang"
      [] OTHER -> ""

\* C16: a tick of a configured cron identity creates exactly one job, and
\* whatever it sends is the report of that identity's granularity; a tick of
\* an identity the switch of scheduled does not name issues no call, sends
\* nothing and returns.
C16_ConfiguredCronsReport ==
    event.kind = "cron" =>
        /\ event.cron \in ConfiguredCrons =>
            /\ issuedCount("createAndRun") = 1
            /\ \A i \in 1..Len(calls) :
                calls[i].api = "sendMessage" =>
                    calls[i].text =
                        normalize(reportMessage(configuredGranularity(event.cron), msgContent))
        /\ event.cron \notin {"0 15 * * *", "58 16 * * 0", "0 15 1 * *"} =>
            /\ calls = <<>>
            /\ delivered = <<>>
            /\ result = Returned("")

\* The configured weekly tick ended with nothing done.
C16_WeeklyTickIgnored ==
    /\ event.kind = "cron"
    /\ event.cron = "58 16 * * 1"
    /\ pc = "done"
    /\ result = Returned("")
    /\ calls = <<>>

\* The positions in calls of an api.
callsAt(api) == {i \in 1..Len(calls) : calls[i].api = api}

\* C17: on the report path the calls are, in this order, one job creation,
\* the status fetches, at most one message list and at most one chat send:
\* the list is requested right after a status fetch and only once a status
\* outside the pending ones was read, the send is issued right after the
\* list and only once the list was read, nothing follows the send, and a
\* tick that returned normally has sent and delivered exactly one message.
C17_ReportOrder ==
    route = "report" =>
        /\ calls[1].api = "createAndRun"
        /\ callsAt("createAndRun") = {1}
        /\ \A i \in callsAt("runs.retrieve") :
            calls[i - 1].api \in {"createAndRun", "runs.retrieve"}
        /\ \A i \in callsAt("messages.list") :
            /\ calls[i - 1].api = "runs.retrieve"
            /\ leftPendingRead
        /\ \A i \in callsAt("sendMessage") :
            /\ calls[i - 1].api = "messages.list"
            /\ msgContent # NoReply
            /\ i = Len(calls)
        /\ Cardinality(callsAt("messages.list")) <= 1
        /\ Cardinality(callsAt("sendMessage")) <= 1
        /\ \A i \in 1..Len(calls) :
            calls[i].api \in {"createAndRun", "runs.retrieve", "messages.list", "sendMessage"}
        /\ result = Returned("") =>
            /\ Cardinality(callsAt("sendMessage")) = 1
            /\ Len(delivered) = 1

\* A monthly tick whose job was pending twice has sent its one report.
C17_Witness ==
    /\ route = "report"
    /\ event.cron = "0 15 1 * *"
    /\ pendingRead = 2
    /\ result = Returned("")
    /\ Len(delivered) = 1
    /\ Len(calls) = 6

\* sub occurs in text.
Contains(text, sub) ==
    \E i \in 0..(Len(text) - Len(sub)) : SubSeq(text, i + 1, i + Len(sub)) = sub

\* The fields of a record the notification is to show.
ShownFields == {"amount", "currency", "message", "bank_name"}

\* C18: the message notifyServices sends for a record without error contains
\* the normalized value of each of the record's amount, currency, message
\* and bank_name that has one.
C18_NotificationShowsFields ==
    (notifyPc # "idle" /\ ~Truthy(transactionDetails.o.error)) =>
        \A field \in ShownFields :
            Truthy(transactionDetails.o[field]) =>
                Contains(lastCall("sendMessage").text,
                         normalize(transactionDetails.o[field]))

\* The notification of the coffee purchase was delivered without its amount.
C18_AmountMissing ==
    /\ notifyPc = "done"
    /\ transactionDetails.o = TxCoffee
    /\ Len(delivered) = 1
    /\ Contains(delivered[1], <<"c", "a", "f", "e">>)
    /\ Contains(delivered[1], <<"V", "C", "B">>)
    /\ ~Contains(delivered[1], <<"5", "0", "\\", ".", "0", "0", "0">>)
    /\ ~Contains(delivered[1], <<"V", "N", "D">>)

\* C19: in what normalize returned, every character of the escaped set has a
\* backslash right before it and no second backslash before that one.
C19_EscapedByOneBackslash ==
    normOutput # NoReply =>
        \A i \in 1..Len(normOutput) :
            normOutput[i] \in EscapedChars =>
                /\ i >= 2
                /\ normOutput[i - 1] = "\\"
                /\ i >= 3 => normOutput[i - 2] # "\\"

\* The same for the texts that hold no backslash.
C19_EscapedWhereNoBackslashGiven ==
    (normOutput # NoReply /\ \A i \in 1..Len(normInput) : normInput[i] # "\\") =>
        \A i \in 1..Len(normOutput) :
            normOutput[i] \in EscapedChars =>
                /\ i >= 2
                /\ normOutput[i - 1] = "\\"
                /\ i >= 3 => normOutput[i - 2] # "\\"

\* A backslash and a dot came out as two backslashes and a dot.
C19_TwoBackslashes ==
    /\ normInput = <<"\\", ".">>
    /\ normOutput = <<"\\", "\\", ".">>

\* A citation marker starts at some position of text.
hasCitation(text) == \E i \in 1..Len(text) : matchCitation(text, i) > 0

\* C20: what normalize returned holds no citation marker.
C20_NoCitationLeft ==
    normOutput # NoReply => ~hasCitation(normOutput)

\* A marker inside the digits of another: deleting the inner one joined the
\* two halves around it into a marker, which stayed.
C20_JoinedMarkerStays ==
    /\ normInput = <<MarkOpen, "1">> \o <<MarkOpen, "2", ":", "3">> \o SourceTail
                   \o <<":", "4">> \o SourceTail
    /\ normOutput = <<MarkOpen, "1", ":", "4">> \o SourceTail

\* The same for the texts in which no marker stands inside another marker's
\* opening half.
C20_NoCitationLeftUnlessNested ==
    (normOutput # NoReply /\ ~hasCitation(normOutput)) \/ normOutput = NoReply
    \/ \E i \in 1..Len(normInput) :
        /\ normInput[i] = MarkOpen
        /\ matchCitation(normInput, i) = 0
        /\ \E j \in (i + 1)..Len(normInput) : matchCitation(normInput, j) > 0

\* text holds no character of the escaped set and no citation marker.
cleanText(text) ==
    /\ \A i \in 1..Len(text) : text[i] \notin EscapedChars
    /\ ~hasCitation(text)

\* C21: for a text with no escaped character and no citation marker,
\* normalizing the normalized text gives the normalized text, and both are
\* the text itself.
C21_IdempotentOnCleanText ==
    (normAgain # NoReply /\ cleanText(normInput)) =>
        /\ normAgain = normOutput
        /\ normOutput = normInput

\* A clean text of a letter, a backslash and an opening bracket with a digit
\* went through normalize twice.
C21_Witness ==
    /\ normInput = <<"a", "\\", MarkOpen, "1">>
    /\ cleanText(normInput)
    /\ normAgain = normInput

\* The day it is where the formatter prints its dates (what formatDate
\* prints for the day), and the day it is in the runtime's local time.
todayPrinted == toLocaleDateString(clock)
todayLocal == dayAt(clock, runtimeOffset)

\* C22: the range formatDate returns for the week starts exactly 6 days
\* before it ends, and when called on a Sunday it ends on that day.
C22_SundayWeekEndsToday ==
    weekRange # NoRange =>
        /\ weekRange.from = weekRange.to - 6
        /\ weekday(todayPrinted) = 0 => weekRange.to = todayPrinted

\* The same with the Sunday read in the runtime's local time.
C22_LocalSundayWeekEndsToday ==
    weekRange # NoRange =>
        /\ weekRange.from = weekRange.to - 6
        /\ weekday(todayLocal) = 0 => weekRange.to = todayLocal

\* What holds: the range is 7 days long, and where the runtime's day is the
\* printed day, a call on a Sunday ends the range on that day.
C22_SundayWeekEndsTodaySameDay ==
    weekRange # NoRange =>
        /\ weekRange.from = weekRange.to - 6
        /\ (weekday(todayPrinted) = 0 /\ todayLocal = todayPrinted) =>
            weekRange.to = todayPrinted

\* Called at 17:00 UTC on Saturday 4 January 2025, which is 00:00 of Sunday
\* 5 January in Bangkok: the range ends on Monday 30 December.
C22_SundayEndsSixDaysBefore ==
    /\ clock = 24 * 34 + 17
    /\ runtimeOffset = 0
    /\ todayPrinted = 35
    /\ weekday(todayPrinted) = 0
    /\ weekRange = [from |-> 23, to |-> 29]

\* C28: the range formatDate returns for the week is the Monday-to-Sunday
\* week of the current day: it starts on a Monday, ends on the Sunday after,
\* and the current day is one of its days.
C28_WeekContainsToday ==
    weekRange # NoRange =>
        /\ weekday(weekRange.from) = 1
        /\ weekday(weekRange.to) = 0
        /\ weekRange.to = weekRange.from + 6
        /\ weekRange.from <= todayPrinted
        /\ todayPrinted <= weekRange.to

\* Called at 16:00 UTC of Wednesday 1 January 2025 in a runtime on Bangkok
\* time: the range is 23 to 29 December, the week before.
C28_WednesdayGetsLastWeek ==
    /\ clock = 24 * 31 + 16
    /\ runtimeOffset = BangkokOffset
    /\ weekday(todayPrinted) = 3
    /\ weekRange = [from |-> 22, to |-> 28]

\* What holds where the runtime's day is the printed day: the range is the
\* Monday-to-Sunday week that ends on the last Sunday not after the current
\* day, which holds the current day on a Sunday only.
C28_WeekEndsOnLastSunday ==
    (weekRange # NoRange /\ todayLocal = todayPrinted) =>
        /\ weekday(weekRange.from) = 1
        /\ weekday(weekRange.to) = 0
        /\ weekRange.to = weekRange.from + 6
        /\ weekRange.to <= todayPrinted
        /\ todayPrinted - weekRange.to < 7
        /\ (weekRange.to = todayPrinted) <=> (weekday(todayPrinted) = 0)

\* The completion request of the extraction has rejected: it was issued, is
\* no longer in flight and has left no content.
extractionRejected ==
    /\ issuedCount("chat.completions") = 1
    /\ pc # "completion"
    /\ completion = NoReply

\* C23: one invocation issues at most one extraction completion request, and
\* exactly one once the extraction has answered or rejected; when the request
\* has rejected the handler has thrown the transport error, the request is
\* the last call issued, and neither storeTransaction nor notifyServices was
\* started.
C23_OneCompletionNoRetry ==
    /\ issuedCount("chat.completions") <= 1
    /\ (completion # NoReply \/ storePc # "idle" \/ notifyPc # "idle") =>
        issuedCount("chat.completions") = 1
    /\ extractionRejected =>
        /\ result = Thrown("APIConnectionError")
        /\ calls[Len(calls)].api = "chat.completions"
        /\ storePc = "idle" /\ notifyPc = "idle"
        /\ issuedCount("files") = 0 /\ issuedCount("sendMessage") = 0
        /\ uploaded = {} /\ delivered = <<>>
        /\ transactionDetails = NoValue

\* The extraction of a mail was rejected.
C23_Witness ==
    /\ event.kind = "mail"
    /\ extractionRejected
    /\ result.state = "threw"
    /\ Len(calls) = 1

\* The handler has answered a rejected webhook call.
rejectionAnswered ==
    /\ badSecret \/ unknownSender
    /\ result.state = "returned"

\* C24 as stated: each of the two rejections is answered with a status that
\* is not 2xx.
C24_RejectionsNotSuccess ==
    rejectionAnswered => result.status \notin 200..299

\* C24, amended: a bad or missing secret is answered 401, a status that is
\* not 2xx, with nothing sent; an unknown sender is answered only after the
\* notice was delivered to the configured chat, and then with the status 200.
C24_RejectionStatuses ==
    /\ (badSecret /\ handlerCompleted) =>
        /\ result.state = "returned"
        /\ result.status = 401
        /\ result.status \notin 200..299
        /\ issuedCount("sendMessage") = 0
    /\ (unknownSender /\ result.state = "returned") =>
        /\ result.status = 200
        /\ result.value = "Unauthorized user"
        /\ issuedCount("sendMessage") = 1
        /\ lastCall("sendMessage").chat = TELEGRAM_CHAT_ID
        /\ delivered = <<lastCall("sendMessage").text>>

\* An unknown sender, with the right secret, was answered.
C24_Witness ==
    /\ unknownSender
    /\ event.from = Stranger
    /\ rejectionAnswered
    /\ result.status = 200
    /\ Len(delivered) = 1

\* The calls of storeTransaction.
sinkApis == {"files", "vector_stores"}

\* C25: at most two remote calls are outstanding at any time, and two only
\* in the paired step, where they are one call of storeTransaction and the
\* chat send of notifyServices; outside that step, and all along the report
\* and question paths, at most one call is outstanding.
C25_OutstandingCalls ==
    /\ Cardinality(inflight) <= 2
    /\ Cardinality(inflight) = 2 =>
        /\ storePc \in {"upload", "attach"}
        /\ notifyPc = "send"
        /\ "sendMessage" \in inflight
        /\ Cardinality(inflight \cap sinkApis) = 1
    /\ (storePc = "idle" /\ notifyPc = "idle") => Cardinality(inflight) <= 1
    /\ route \in {"report", "question"} => Cardinality(inflight) <= 1
    /\ pc \in {"createAndRun", "retrieve", "list", "reportSend", "questionSend",
               "classify", "getFile", "fileDownload", "ocr", "completion",
               "rejectSend"} =>
        Cardinality(inflight) = 1

\* The attach and the chat send are outstanding together.
C25_Witness ==
    /\ inflight = {"vector_stores", "sendMessage"}
    /\ pc = "all"
    /\ storePc = "attach"
    /\ notifyPc = "send"

\* The senders whose send has been started.
started == {s \in 1..MaxSenders : senders[s].pc # "ready"}

\* C26: whatever the order in which sends of several triggers start and
\* settle, at most one client is ever constructed: none before the first
\* send, one from it on, cached, and no send runs without it.
C26_OneClient ==
    /\ constructions <= 1
    /\ bot <=> constructions = 1
    /\ started # {} => bot

\* Two sends are awaited at once and two more have ended, one delivered and
\* one failed, with one client constructed.
C26_Witness ==
    /\ senders[1].pc = "awaiting"
    /\ senders[2].pc = "awaiting"
    /\ senders[3].pc = "returned"
    /\ senders[4].pc = "threw"
    /\ constructions = 1

\* C27: a caller of sendTelegramMessage has gone on (logged the success,
\* returned its acknowledgment) only once the transport's send was delivered,
\* and a send that failed has made its caller throw.
C27_SendAwaited ==
    \A s \in 1..MaxSenders :
        /\ senders[s].pc = "returned" => senders[s].send = "delivered"
        /\ senders[s].send = "failed" => senders[s].pc = "threw"

\* In part_000 a caller has returned while its send was still in flight, and
\* another has returned although its send failed.
C27_ReturnedBeforeSettled ==
    /\ senders[1] = Sender("returned", "inflight")
    /\ senders[2] = Sender("returned", "failed")

\* ----------------------------------------------------------------- C29
\* The webhook call carries the secret, comes from the configured chat and
\* its message has no text.
textlessMessage ==
    /\ event.kind = "webhook"
    /\ event.header = TELEGRAM_BOT_SECRET_TOKEN
    /\ event.from = TELEGRAM_CHAT_ID
    /\ event.text = Undefined

\* The calls of the OCR path up to the extraction, in the order of the code.
OcrOrder == <<"getFile", "fileDownload", "responses.ocr", "chat.completions">>

\* The extraction completion answered a document that is an object whose
\* result is not "failed".
confirmedRecord ==
    /\ completion # NoReply
    /\ Truthy(stripBackticks(completion))
    /\ JSONparse(stripBackticks(completion)).t = "object"
    /\ JSONparse(stripBackticks(completion)).o.result # FailedText

\* C29: an authorized webhook message without text goes to the OCR path: no
\* intent classification is requested; the calls issued are, in this order,
\* the photo's file lookup and download, the image-understanding completion
\* and the extraction completion, then nothing but the calls of store and
\* notify; store and notify are started, together and in the same step, if
\* and only if the extraction answered a record that is not "failed".
C29_OcrPath ==
    textlessMessage =>
        /\ "responses.tools" \notin issuedApis
        /\ "createAndRun" \notin issuedApis
        /\ \A i \in 1..Len(calls) :
            IF i <= Len(OcrOrder) THEN calls[i].api = OcrOrder[i]
            ELSE calls[i].api \in pairedApis
        /\ Len(calls) >= 1 => route \in {"", "assistantOcr"}
        /\ Len(calls) >= Len(OcrOrder) => route = "assistantOcr"
        /\ (storePc # "idle" /\ notifyPc # "idle") <=> confirmedRecord
        /\ storePc # "idle" <=> notifyPc # "idle"
        /\ confirmedRecord =>
            /\ Len(calls) >= Len(OcrOrder) + 2
            /\ {calls[Len(OcrOrder) + 1].api, calls[Len(OcrOrder) + 2].api}
                = {"files", "sendMessage"}
        /\ ~confirmedRecord => Len(calls) <= Len(OcrOrder)

\* A photo message was read, its record stored and notified, and the
\* handler answered.
C29_Witness ==
    /\ textlessMessage
    /\ confirmedRecord
    /\ Len(calls) = Len(OcrOrder) + 3
    /\ attached # {} /\ delivered # <<>>
    /\ handlerCompleted /\ result.state = "returned"

\* A photo message whose extraction answered "failed": four calls, no
\* store, no notification.
C29_FailedPhoto ==
    /\ textlessMessage
    /\ completion = <<"{failed}">>
    /\ Len(calls) = Len(OcrOrder)
    /\ storePc = "idle" /\ notifyPc = "idle"
    /\ handlerCompleted

\* A message without text whose photo has fewer than four sizes: the
\* handler threw before any call.
C29_SmallPhoto ==
    /\ textlessMessage
    /\ event.photo # Undefined /\ Len(event.photo) < 4
    /\ calls = <<>>
    /\ result.state = "threw"

\* ----------------------------------------------------------------- C30
\* The statuses with which a job has left the pending ones without
\* completing.
UncompletedStatuses == RunStatuses \ (PendingStatuses \cup {"completed"})

\* The poll loop read a status that is neither pending nor completed.
leftUncompleted ==
    \E i \in 1..Len(statusesRead) : statusesRead[i] \in UncompletedStatuses

C30_ExpiredQuestionAnswered ==
    /\ route = "question"
    /\ statusesRead # <<>>
    /\ statusesRead[Len(statusesRead)] = "expired"
    /\ Len(delivered) = 1
    /\ result = Responded(200, "Success")

\* ----------------------------------------------------------------- C31
\* The webhook's two extraction routes.
webhookExtraction == route \in {"assistantOcr", "assistantManualTransaction"}

\* The extraction answered and gave no record: no reply, a "failed" one, or
\* a falsy document.
noTransaction ==
    /\ completion # NoReply
    /\ result.state # "threw"
    /\ ~confirmedRecord

\* The record was stored and notified: the file is attached and the message
\* delivered.
storedAndNotified ==
    /\ confirmedRecord
    /\ storePc = "done" /\ notifyPc = "done"

\* C31: on the webhook's OCR and manual-transaction routes the answer is 200
\* "Success" both when the record was stored and notified and when the
\* extraction gave no transaction (then nothing is stored or notified), and
\* no other answer is returned on them; the question route answers 200
\* "Success" too once its reply was sent, never "Request completed".
C31_SameAcknowledgment ==
    /\ (webhookExtraction /\ storedAndNotified) =>
        /\ result = Responded(200, "Success")
        /\ attached # {} /\ Len(delivered) = 1
    /\ (webhookExtraction /\ noTransaction) =>
        /\ result = Responded(200, "Success")
        /\ issuedApis \cap pairedApis = {}
        /\ attached = {} /\ delivered = <<>>
    /\ (webhookExtraction /\ result.state = "returned") =>
        /\ result = Responded(200, "Success")
        /\ storedAndNotified \/ noTransaction
    /\ (route = "question" /\ result.state = "returned") =>
        /\ result = Responded(200, "Success")
        /\ Len(delivered) = 1
    /\ (route = "question" /\ delivered # <<>>) => result = Responded(200, "Success")

\* A manual transaction whose extraction answered "failed" was acknowledged
\* with nothing stored or notified.
C31_Witness ==
    /\ route = "assistantManualTransaction"
    /\ completion = <<"{failed}">>
    /\ noTransaction
    /\ result = Responded(200, "Success")

\* A photo's record stored and notified, with the same answer.
C31_StoredPhoto ==
    /\ route = "assistantOcr"
    /\ storedAndNotified
    /\ result = Responded(200, "Success")

\* A question answered.
C31_QuestionAnswered ==
    /\ route = "question"
    /\ Len(delivered) = 1
    /\ result = Responded(200, "Success")

\* ----------------------------------------------------------------- C32
\* The routes that extract a record: the mail and the webhook's two.
extractionRoute == route \in {"email", "assistantOcr", "assistantManualTransaction"}

\* The chat messages issued for this trigger, delivered or not.
messagesIssued == {calls[i].text : i \in callsAt("sendMessage")}

\* A chat message is an error line: it begins with "Transaction error:".
errorLine(text) == text # <<>> /\ text[1] = "LBL_TRANSACTION_ERROR"

\* The confirmed record carries a truthy error field.
recordHasError ==
    /\ confirmedRecord
    /\ Truthy(JSONparse(stripBackticks(completion)).o.error)

\* C32 as stated: no chat message is ever an error line.
C32_NoErrorLineEver ==
    \A text \in messagesIssued : ~errorLine(text)

\* C32, amended: the Notifier is only called with a confirmed record; the
\* message it sends is an error line exactly when that record carries a
\* truthy error field, and a new-transaction message otherwise; a failure of
\* the extraction, of the store or of the send adds no message: on an
\* extraction route at most one message is issued, none without a confirmed
\* record, and what was delivered when the handler threw is that one message.
C32_ErrorLineOnlyFromRecord ==
    /\ notifyPc # "idle" => (extractionRoute /\ confirmedRecord)
    /\ extractionRoute =>
        /\ issuedCount("sendMessage") <= 1
        /\ ~confirmedRecord => (messagesIssued = {} /\ delivered = <<>>)
        /\ \A text \in messagesIssued :
            /\ errorLine(text) <=> recordHasError
            /\ ~errorLine(text) => text[1] = "LBL_NEW_TRANSACTION"
        /\ \A i \in 1..Len(delivered) : delivered[i] \in messagesIssued
        /\ Len(delivered) <= 1
    /\ \A text \in messagesIssued : errorLine(text) => (extractionRoute /\ recordHasError)

\* A mail whose record carries an error field: the error line was delivered.
C32_Witness ==
    /\ route = "email"
    /\ recordHasError
    /\ Len(delivered) = 1 /\ errorLine(delivered[1])

\* A mail whose store failed: the handler threw, and the only message is the
\* new-transaction one.
C32_StoreFailedSilently ==
    /\ route = "email"
    /\ storePc = "failed"
    /\ result.state = "threw"
    /\ Len(delivered) = 1 /\ ~errorLine(delivered[1])

\* A mail whose extraction threw: nothing was sent.
C32_ExtractionFailedSilently ==
    /\ route = "email"
    /\ completion # NoReply
    /\ result.state = "threw"
    /\ issuedCount("sendMessage") = 0

\* ----------------------------------------------------------------- C33
\* C33: within one trigger at most one file upload, at most one vector
\* attach and at most one chat send are issued, so at most one file is
\* stored, one attached and one message delivered, whatever fails; uploads
\* and attaches belong to the extraction routes only; for a confirmed
\* record exactly one upload and exactly one notification are issued, and
\* on the report route the one send follows the one message list.
C33_NoDuplicates ==
    /\ issuedCount("files") <= 1
    /\ issuedCount("vector_stores") <= 1
    /\ issuedCount("sendMessage") <= 1
    /\ Cardinality(uploaded) <= 1
    /\ Cardinality(attached) <= 1
    /\ Len(delivered) <= 1
    /\ issuedCount("chat.completions") <= 1
    /\ issuedCount("createAndRun") <= 1
    /\ issuedCount("messages.list") <= 1
    /\ issuedCount("vector_stores") <= issuedCount("files")
    /\ issuedApis \cap {"files", "vector_stores"} # {} => extractionRoute
    /\ (extractionRoute /\ confirmedRecord) =>
        /\ issuedCount("files") = 1
        /\ issuedCount("sendMessage") = 1
    /\ route = "report" => issuedCount("sendMessage") <= issuedCount("messages.list")

\* A mail whose attach was refused after the upload succeeded and the
\* notification was delivered: one upload, one attach, one send, and the
\* handler threw.
C33_Witness ==
    /\ route = "email"
    /\ confirmedRecord
    /\ issuedCount("files") = 1
    /\ issuedCount("vector_stores") = 1
    /\ issuedCount("sendMessage") = 1
    /\ Cardinality(uploaded) = 1 /\ attached = {}
    /\ Len(delivered) = 1
    /\ result.state = "threw"

\* A cron tick whose report was sent once.
C33_OneReport ==
    /\ route = "report"
    /\ issuedCount("sendMessage") = 1
    /\ Len(delivered) = 1
    /\ result.state = "returned"

\* ----------------------------------------------------------------- C34
\* The number of log lines the poll loop has written.
infosLogged == Len(SelectSeq(trace, LAMBDA e : e = "info"))

\* C34: in the poll loop's record every sleep comes right after a log line
\* and every log line right after the pending status it is written for, so
\* each wait round is one status, one log line and one sleep, as many log
\* lines as rounds however many there are; a status outside the pending
\* ones is the last entry, with no log line and no sleep after it; while the
\* sleep runs the record ends with the log line and the sleep.
C34_LogBeforeEachSleep ==
    /\ \A i \in 1..Len(trace) :
        /\ trace[i] = "sleep" => (i >= 3 /\ trace[i - 1] = "info")
        /\ trace[i] = "info" =>
            (i >= 2 /\ trace[i - 1] \in PendingStatuses
             /\ i < Len(trace) /\ trace[i + 1] = "sleep")
        /\ trace[i] \in PendingStatuses => (i < Len(trace) /\ trace[i + 1] = "info")
        /\ trace[i] \in RunStatuses \ PendingStatuses => i = Len(trace)
    /\ infosLogged = sleepsDone
    /\ infosLogged = pendingRead
    /\ infosLogged = pending
    /\ Len(trace) = 3 * pending + (IF leftPendingRead THEN 1 ELSE 0)
    /\ pc = "sleep" =>
        /\ Len(trace) >= 3
        /\ trace[Len(trace)] = "sleep" /\ trace[Len(trace) - 1] = "info"

\* Two wait rounds, then a completed status: two log lines, two sleeps, and
\* none after the last status.
C34_Witness ==
    /\ Len(trace) = 7
    /\ infosLogged = 2 /\ sleepsDone = 2
    /\ trace[7] = "completed"
    /\ pollerReturned

\* A first fetch that reads a status outside the pending ones: no log line.
C34_NoLogWithoutWait ==
    /\ statusesRead = <<"failed">>
    /\ infosLogged = 0
    /\ pollerReturned
====
